---- MODULE Spec2Model ----
(***************************************************************************)
(* A model of linter.py (sceptre-config-lint): the parameter matcher       *)
(* match_params, the per-config processor process_config, the file         *)
(* discovery list_files_recursively and the __main__ batch loop.           *)
(*                                                                         *)
(* Python values are modelled as follows.                                  *)
(*   - a str is a sequence of text tokens; "" is the empty sequence and    *)
(*     concatenation is \o.  '\n'.join(xs) puts the token "\n" between     *)
(*     the items.                                                          *)
(*   - a value that may be None is a record [isNone, s].                   *)
(*   - a mapping is a function whose DOMAIN is its key set.                *)
(*   - a set's iteration order is not fixed by Python: it is an input      *)
(*     (`order`, a permutation of the names) of whatever iterates it.      *)
(***************************************************************************)
EXTENDS Integers, Sequences, FiniteSets, TLC

VARIABLES
    pc,               \* position of the modelled call / of the script
    config_params,    \* match_params: 1st argument (mapping name -> value)
    template_params,  \* match_params: 2nd argument (mapping name -> definition)
    mp_ret,           \* match_params: the returned pair
    frame,            \* process_config: its locals, the world it read, its return
    argv,             \* __main__: the parsed command line
    tree,             \* the regular files under the walked root, relative paths
    filters,          \* list_files_recursively: include_filters / skip_filters
    configs,          \* list_files_recursively's result (__main__: configs)
    idx,              \* __main__: number of loop iterations completed
    comp_exit_code,   \* __main__: comp_exit_code
    calls,            \* history: <<config_path, value returned by process_config>>
    stdout,           \* the error / OK blocks printed by the loop
    exit_status       \* the status passed to sys.exit, -1 while running

vars == <<pc, config_params, template_params, mp_ret, frame, argv, tree,
          filters, configs, idx, comp_exit_code, calls, stdout, exit_status>>

-----------------------------------------------------------------------------
(* Bounds of the model.                                                    *)

MaxParams == 3
MaxProcParams == 2
MaxPatterns == 2

-----------------------------------------------------------------------------
(* Python values.                                                          *)

None == [isNone |-> TRUE, s |-> <<>>]
Str(s) == [isNone |-> FALSE, s |-> s]
\* truthiness of a str-or-None value: None and "" are falsy
Truthy(v) == ~v.isNone /\ Len(v.s) > 0

Max(a, b) == IF a >= b THEN a ELSE b

RECURSIVE Join(_, _)
\* sep.join(items): items is a sequence of strs
Join(items, sep) ==
    IF Len(items) = 0 THEN <<>>
    ELSE IF Len(items) = 1 THEN items[1]
    ELSE items[1] \o <<sep>> \o Join(Tail(items), sep)

\* the iteration orders of a set with elements among S
Perms(S) ==
    {f \in [1..Cardinality(S) -> S] : \A i, j \in 1..Cardinality(S) : f[i] = f[j] => i = j}

Range(s) == {s[i] : i \in 1..Len(s)}

\* dict.get(key, default)
Get(m, key, default) == IF key \in DOMAIN m THEN m[key] ELSE default

-----------------------------------------------------------------------------
(* match_params                                                            *)

AllParamNames == <<"Env", "Size", "Extra", "Zone", "Tier">>
ParamNames == {AllParamNames[i] : i \in 1..MaxParams}
\* a parameter definition is modelled by the set of fields it has
Definitions == SUBSET {"Default", "Type"}
Mappings(names, values) == UNION {[S -> values] : S \in SUBSET names}

\* str() of a set / a list of names, members in the given order
FmtMembers(members) == Join([i \in 1..Len(members) |-> <<members[i]>>], ", ")
FmtSet(members) == <<"{">> \o FmtMembers(members) \o <<"}">>
FmtList(members) == <<"[">> \o FmtMembers(members) \o <<"]">>

UnknownLabel == "Unknown params in config: "
MissingLabel == "Missing template params: "

\* faulty variant: the Default exemption is forgotten
TplMissingIgnoringDefault(tpl_xtra, tparams, order) ==
    LET absent(p) == p \in tpl_xtra
    IN  SelectSeq(order, absent)

\* the for loop of lines 145-147: tpl_xtra iterated in `order`
TplMissing(tpl_xtra, tparams, order) ==
    LET required(p) == p \in tpl_xtra /\ "Default" \notin Get(tparams, p, {})
    IN  SelectSeq(order, required)

\* faulty variant: the second category is reported only when the first is empty
match_params_short_circuit(cparams, tparams, order) ==
    LET conf_xtra_error == DOMAIN cparams \ DOMAIN tparams
        tpl_missing == TplMissing(DOMAIN tparams \ DOMAIN cparams, tparams, order)
        in_xtra(p) == p \in conf_xtra_error
    IN  IF conf_xtra_error # {}
            THEN <<1, Str(<<UnknownLabel>> \o FmtSet(SelectSeq(order, in_xtra)))>>
        ELSE IF Len(tpl_missing) > 0
            THEN <<1, Str(<<MissingLabel>> \o FmtList(tpl_missing))>>
        ELSE <<0, None>>

\* faulty variant: success carries an empty string instead of None
match_params_empty_string(cparams, tparams, order) ==
    LET conf_xtra_error == DOMAIN cparams \ DOMAIN tparams
        tpl_missing == TplMissing(DOMAIN tparams \ DOMAIN cparams, tparams, order)
        in_xtra(p) == p \in conf_xtra_error
        errors ==
            (IF conf_xtra_error # {}
                THEN << <<UnknownLabel>> \o FmtSet(SelectSeq(order, in_xtra)) >>
                ELSE <<>>)
            \o
            (IF Len(tpl_missing) > 0
                THEN << <<MissingLabel>> \o FmtList(tpl_missing) >>
                ELSE <<>>)
    IN  <<IF Len(errors) > 0 THEN 1 ELSE 0, Str(Join(errors, "\n"))>>

match_params(cparams, tparams, order) ==
    LET config_params_set == DOMAIN cparams
        template_params_set == DOMAIN tparams
        conf_xtra_error == config_params_set \ template_params_set
        tpl_xtra == template_params_set \ config_params_set
        tpl_missing == TplMissing(tpl_xtra, tparams, order)
        in_xtra(p) == p \in conf_xtra_error
        errors ==
            (IF conf_xtra_error # {}
                THEN << <<UnknownLabel>> \o FmtSet(SelectSeq(order, in_xtra)) >>
                ELSE <<>>)
            \o
            (IF Len(tpl_missing) > 0
                THEN << <<MissingLabel>> \o FmtList(tpl_missing) >>
                ELSE <<>>)
    IN  IF conf_xtra_error # {} \/ Len(tpl_missing) > 0
            THEN <<1, Str(Join(errors, "\n"))>>
            ELSE <<0, None>>

NoFrame == [pc |-> "none"]
NoArgv == [config |-> None, skip |-> None, verbose |-> FALSE, has_config_dir |-> FALSE]
NoFilters == [include |-> <<>>, skip |-> <<>>]

MatchInit ==
    /\ pc = "call"
    /\ config_params \in Mappings(ParamNames, {"v"})
    /\ template_params \in Mappings(ParamNames, Definitions)
    /\ mp_ret = <<0, None>>
    /\ frame = NoFrame
    /\ argv = NoArgv
    /\ tree = {}
    /\ filters = NoFilters
    /\ configs = <<>>
    /\ idx = 0
    /\ comp_exit_code = 0
    /\ calls = <<>>
    /\ stdout = <<>>
    /\ exit_status = -1

MatchParams ==
    /\ pc = "call"
    /\ \E order \in Perms(ParamNames) :
          mp_ret' = match_params(config_params, template_params, order)
    /\ pc' = "done"
    /\ UNCHANGED <<config_params, template_params, frame, argv, tree, filters,
                   configs, idx, comp_exit_code, calls, stdout, exit_status>>

MatchNext == MatchParams

SpecMatch == MatchInit /\ [][MatchNext]_vars

-----------------------------------------------------------------------------
(* Properties of match_params, stated over the inputs of the call.         *)

\* the two error sets of the statement, written from the key sets
UnknownSet == DOMAIN config_params \ DOMAIN template_params
MissingSet ==
    {p \in DOMAIN template_params \ DOMAIN config_params :
        "Default" \notin template_params[p]}

\* the names a diagnostic lists: the tokens between the bracket that follows
\* `label` and the first `close` after it, separators left out
Listed(msg, label, close) ==
    LET i == CHOOSE k \in 1..Len(msg) : msg[k] = label
        j == CHOOSE k \in (i + 1)..Len(msg) :
                 msg[k] = close /\ \A l \in (i + 1)..(k - 1) : msg[l] # close
        notsep(t) == t # ", "
    IN  SelectSeq(SubSeq(msg, i + 2, j - 1), notsep)

ListsExactly(msg, label, close, S) ==
    /\ Range(Listed(msg, label, close)) = S
    /\ Len(Listed(msg, label, close)) = Cardinality(S)

\* C1: match_params returns exit code 0 iff keys(config) is a subset of
\* keys(template) and every template key absent from the config has a
\* 'Default' entry; in every other case it returns exit code 1.
C1_ExitCodeIff ==
    pc = "done" =>
        /\ mp_ret[1] \in {0, 1}
        /\ mp_ret[1] = 0 <=>
              /\ DOMAIN config_params \subseteq DOMAIN template_params
              /\ \A k \in DOMAIN template_params \ DOMAIN config_params :
                    "Default" \in template_params[k]

\* a defaulted template parameter is omitted by the config and the call passes
C1_Witness ==
    /\ pc = "done"
    /\ mp_ret[1] = 0
    /\ \E k \in DOMAIN template_params \ DOMAIN config_params :
          "Default" \in template_params[k]

\* C8: match_params never short-circuits: the message holds the 'Unknown
\* params in config' diagnostic iff keys(config) - keys(template) is
\* non-empty and the 'Missing template params' diagnostic iff some template
\* parameter absent from the config has no Default; each diagnostic lists
\* exactly the members of its set, and when both are present they are the
\* whole message, the unknown one first, joined by one newline.
C8_BothDiagnostics ==
    pc = "done" =>
        LET msg == mp_ret[2].s
        IN  /\ UnknownLabel \in Range(msg) <=> UnknownSet # {}
            /\ MissingLabel \in Range(msg) <=> MissingSet # {}
            /\ UnknownSet # {} => ListsExactly(msg, UnknownLabel, "}", UnknownSet)
            /\ MissingSet # {} => ListsExactly(msg, MissingLabel, "]", MissingSet)
            /\ UnknownSet # {} /\ MissingSet # {} =>
                  /\ mp_ret[1] = 1
                  /\ Cardinality({k \in 1..Len(msg) : msg[k] = "\n"}) = 1
                  /\ msg[1] = UnknownLabel
                  /\ \E k \in 1..Len(msg) :
                        /\ msg[k] = "\n"
                        /\ msg[k - 1] = "}"
                        /\ msg[k + 1] = MissingLabel
                  /\ msg[Len(msg)] = "]"

\* both error categories occur in one call
C8_Witness ==
    /\ pc = "done"
    /\ UnknownSet # {}
    /\ MissingSet # {}
    /\ mp_ret[1] = 1

\* the inputs of Scenario A, after the call
ScenarioA ==
    /\ pc = "done"
    /\ DOMAIN config_params = {"Env"}
    /\ DOMAIN template_params = {"Env", "Size"}
    /\ template_params["Env"] = {}
    /\ template_params["Size"] = {"Default"}

\* C9 as stated: on success match_params returns (0, ""), an empty string.
C9_ReturnsEmptyString ==
    pc = "done" /\ UnknownSet = {} /\ MissingSet = {} => mp_ret = <<0, Str(<<>>)>>

\* C9 amended: on success match_params returns (0, None): exit code 0 and
\* no message at all (None, which is falsy like "" but is not a string).
C9_ReturnsNone ==
    pc = "done" /\ UnknownSet = {} /\ MissingSet = {} => mp_ret = <<0, None>>

C9_Witness == ScenarioA /\ mp_ret[1] = 0

-----------------------------------------------------------------------------
(* process_config                                                          *)
(*                                                                         *)
(* A path is the sequence of its components; os.path.join is \o and the    *)
(* slice path[len(project_home) + 1:] drops the first component.  What     *)
(* the function reads from the outside world (the loaded config, the file  *)
(* system, the linter's verdict, the template's Parameters) is an input    *)
(* of the step that reads it.  A step that raises leaves the try block:    *)
(* the except clause of lines 188-189 decides what happens next.           *)

ProcParamNames == {AllParamNames[i] : i \in 1..MaxProcParams}
PROJECT_HOME == <<"proj">>
TemplatePaths == {<<"app.yaml">>}
\* what os.path.exists / os.path.isfile can say about a path
FsKinds == {"none", "file", "dir"}
\* exit codes cfn-lint can hand back (0, or a mask of error / warning bits)
LintExitCodes == {0, 2, 4, 6}
LintTexts == {<<>>, <<"E3001 Invalid resource">>}

\* PathStr(p): the path as text, components separated by "/"
PathStr(p) == Join([i \in 1..Len(p) |-> <<p[i]>>], "/")

NoParams == [isNone |-> TRUE, map |-> <<>>]
ParamsMap(m) == [isNone |-> FALSE, map |-> m]
NoConfig == [keys |-> {}, template_path |-> None, parameters |-> NoParams]

\* the objects load_config can produce: a mapping with or without each of
\* the two keys; `template_path:` and `parameters:` may be left empty (None)
Configurations ==
    {[keys |-> K, template_path |-> t, parameters |-> p] :
        K \in SUBSET {"template_path", "parameters"},
        t \in {None} \cup {Str(x) : x \in TemplatePaths},
        p \in {NoParams} \cup {ParamsMap(m) : m \in Mappings(ProcParamNames, {"v"})}}

\* the exceptions the steps raise, all of them subclasses of Exception
ExceptionClasses ==
    {"FileNotFoundError", "YAMLError", "KeyError", "TypeError", "AttributeError",
     "CfnParseError"}
NoExc == [cls |-> "", msg |-> ""]
Exc(cls, msg) == [cls |-> cls, msg |-> msg]

LoadOutcomes ==
    {[exc |-> e, config |-> NoConfig] :
        e \in {Exc("FileNotFoundError", "No such file or directory"),
               Exc("YAMLError", "mapping values are not allowed here")}}
    \cup {[exc |-> NoExc, config |-> c] :
            c \in {c \in Configurations :
                     /\ "template_path" \notin c.keys => c.template_path = None
                     /\ "parameters" \notin c.keys => c.parameters = NoParams}}

Worlds == [orig : FsKinds, alt : FsKinds]

ValidateOutcomes ==
    {[exc |-> Exc("CfnParseError", "linter failed"), exit_code |-> 0, errors |-> <<>>]}
    \cup {[exc |-> NoExc, exit_code |-> c, errors |-> t] :
            c \in LintExitCodes, t \in LintTexts}

\* cfn_yaml.load(filename)['Parameters']: a path that is no regular file
\* cannot be loaded; a template without a Parameters section is a KeyError
TemplateOutcomes(kind) ==
    {[exc |-> e, tparams |-> <<>>] :
        e \in {Exc("CfnParseError", "cannot load template")} \cup
              (IF kind = "file" THEN {Exc("KeyError", "'Parameters'")} ELSE {})}
    \cup (IF kind = "file"
             THEN {[exc |-> NoExc, tparams |-> m] :
                      m \in Mappings(ProcParamNames, Definitions)}
             ELSE {})

\* line 267: __main__ always passes is_try_default_template_path=True,
\* which is also the default of the parameter
is_try_default_template_path == TRUE

Start(config_filename, project_home, verbose) ==
    [pc |-> "load",
     config_filename |-> config_filename,
     project_home |-> project_home,
     verbose |-> verbose,
     config |-> NoConfig,
     world |-> [orig |-> "none", alt |-> "none"],
     template_path |-> <<>>,
     rel_config_path |-> <<>>,
     rel_template_path |-> <<>>,
     validated_path |-> <<>>,
     extracted_path |-> <<>>,
     template_exit_code |-> 0,
     template_errors |-> <<>>,
     params_exit_code |-> 0,
     params_errors |-> None,
     printed |-> <<>>,
     exc |-> NoExc,
     ret |-> <<0, <<>>>>]

Raise(f, e) == [f EXCEPT !.pc = "raised", !.exc = e]

FailedPrefix == "Failed to process config file: "
OK == <<"OK">>

\* faulty variant: the except clause names the loader's errors only
HandlerLoaderErrorsOnly(f) ==
    IF f.pc # "raised" THEN f
    ELSE IF f.exc.cls \in {"FileNotFoundError", "YAMLError"}
        THEN [f EXCEPT !.pc = "return",
                       !.ret = <<1, <<FailedPrefix>> \o PathStr(f.config_filename)
                                     \o <<": ", f.exc.msg>> >>]
        ELSE [f EXCEPT !.pc = "escaped"]

\* lines 188-189: except Exception as e
Handler(f) ==
    IF f.pc # "raised" THEN f
    ELSE IF f.exc.cls \in ExceptionClasses
        THEN [f EXCEPT !.pc = "return",
                       !.ret = <<1, <<FailedPrefix>> \o PathStr(f.config_filename)
                                     \o <<": ", f.exc.msg>> >>]
        ELSE [f EXCEPT !.pc = "escaped"]

\* line 161
PcLoad(f, o) ==
    IF f.pc # "load" THEN f
    ELSE IF o.exc # NoExc THEN Raise(f, o.exc)
    ELSE [f EXCEPT !.pc = "resolve", !.config = o.config]

\* faulty variant: the fallback is taken without the isfile test
ResolveTemplatePathAnyKind(project_home, tp, w) ==
    IF w.orig = "none" /\ w.alt # "none"
        THEN project_home \o <<"templates">> \o tp
        ELSE project_home \o tp

\* lines 162 and 167-170: the path handed to the validator
ResolveTemplatePath(project_home, tp, w) ==
    LET template_path == project_home \o tp
        alt_template_path == project_home \o <<"templates">> \o tp
    IN  IF w.orig = "none" /\ is_try_default_template_path
            THEN IF w.alt # "none" /\ w.alt = "file"
                    THEN alt_template_path
                    ELSE template_path
            ELSE template_path

\* lines 162-170
PcResolve(f, w) ==
    IF f.pc # "resolve" THEN f
    ELSE IF "template_path" \notin f.config.keys
        THEN Raise(f, Exc("KeyError", "'template_path'"))
    ELSE IF f.config.template_path.isNone
        THEN Raise(f, Exc("TypeError", "join() argument must be str, not 'NoneType'"))
    ELSE LET tp == f.config.template_path.s
             rel_config_path == Tail(f.config_filename)
             rel_template_path == Tail(f.project_home \o tp)
         IN  [f EXCEPT !.pc = "validate",
                       !.world = w,
                       !.rel_config_path = rel_config_path,
                       !.rel_template_path = rel_template_path,
                       !.printed =
                           IF f.verbose
                              THEN << <<"-- Processing config file: ">>
                                      \o PathStr(rel_config_path)
                                      \o <<"\t|\t[template:">>
                                      \o PathStr(rel_template_path) \o <<"]">> >>
                              ELSE <<>>,
                       !.template_path = ResolveTemplatePath(f.project_home, tp, w)]

\* the kind of file the resolved template path names
ResolvedKind(f) ==
    IF f.template_path = f.project_home \o <<"templates">> \o f.config.template_path.s
        THEN f.world.alt ELSE f.world.orig

\* line 171
PcValidate(f, o) ==
    IF f.pc # "validate" THEN f
    ELSE IF o.exc # NoExc THEN Raise([f EXCEPT !.validated_path = f.template_path], o.exc)
    ELSE [f EXCEPT !.pc = "params",
                   !.validated_path = f.template_path,
                   !.template_exit_code = o.exit_code,
                   !.template_errors = o.errors]

\* lines 176-187: the value returned when nothing raised
Report(f, template_exit_code, template_errors, params_exit_code, params_errors) ==
    LET exit_code == Max(template_exit_code, params_exit_code)
        errors ==
            (IF Len(template_errors) > 0
                THEN << <<"FAILED: >> template errors for ">>
                          \o PathStr(f.rel_template_path) \o <<":">>,
                        template_errors >>
                ELSE <<>>)
            \o
            (IF Truthy(params_errors)
                THEN << <<"FAILED: >>> config params errors for ">>
                          \o PathStr(f.rel_config_path) \o <<":">>,
                        params_errors.s >>
                ELSE <<>>)
    IN  IF exit_code # 0 /\ (Len(template_errors) > 0 \/ Truthy(params_errors))
            THEN <<exit_code, Join(errors, "\n")>>
            ELSE <<0, OK>>

\* lines 173-187; the arguments of match_params are evaluated left to right
PcParams(f, o, order) ==
    IF f.pc # "params" THEN f
    ELSE IF "parameters" \notin f.config.keys
        THEN Raise(f, Exc("KeyError", "'parameters'"))
    ELSE IF o.exc # NoExc
        THEN Raise([f EXCEPT !.extracted_path = f.template_path], o.exc)
    ELSE IF f.config.parameters.isNone
        THEN Raise([f EXCEPT !.extracted_path = f.template_path],
                   Exc("AttributeError", "'NoneType' object has no attribute 'keys'"))
    ELSE LET m == match_params(f.config.parameters.map, o.tparams, order)
         IN  [f EXCEPT !.pc = "return",
                       !.extracted_path = f.template_path,
                       !.params_exit_code = m[1],
                       !.params_errors = m[2],
                       !.ret = Report(f, f.template_exit_code, f.template_errors,
                                      m[1], m[2])]

\* the whole call, in an environment env that fixes what each step reads
process_config(config_filename, project_home, verbose, env) ==
    LET f0 == Start(config_filename, project_home, verbose)
        f1 == Handler(PcLoad(f0, env.load))
        f2 == Handler(PcResolve(f1, env.world))
        f3 == Handler(PcValidate(f2, env.validate))
        f4 == Handler(PcParams(f3, env.template, env.order))
    IN  f4

ProcInit ==
    /\ pc = "proc"
    /\ frame \in {Start(PROJECT_HOME \o <<"config">> \o c, PROJECT_HOME, v) :
                     c \in {<<"dev", "app.yaml">>}, v \in BOOLEAN}
    /\ config_params = <<>>
    /\ template_params = <<>>
    /\ mp_ret = <<0, None>>
    /\ argv = NoArgv
    /\ tree = {}
    /\ filters = NoFilters
    /\ configs = <<>>
    /\ idx = 0
    /\ comp_exit_code = 0
    /\ calls = <<>>
    /\ stdout = <<>>
    /\ exit_status = -1

ProcUnchanged ==
    UNCHANGED <<pc, config_params, template_params, mp_ret, argv, tree, filters,
                configs, idx, comp_exit_code, calls, stdout, exit_status>>

ProcLoad ==
    /\ pc = "proc" /\ frame.pc = "load"
    /\ \E o \in LoadOutcomes : frame' = Handler(PcLoad(frame, o))
    /\ ProcUnchanged

ProcResolve ==
    /\ pc = "proc" /\ frame.pc = "resolve"
    /\ \E w \in Worlds : frame' = Handler(PcResolve(frame, w))
    /\ ProcUnchanged

ProcValidate ==
    /\ pc = "proc" /\ frame.pc = "validate"
    /\ \E o \in ValidateOutcomes : frame' = Handler(PcValidate(frame, o))
    /\ ProcUnchanged

ProcParams ==
    /\ pc = "proc" /\ frame.pc = "params"
    /\ \E o \in TemplateOutcomes(ResolvedKind(frame)), order \in Perms(ProcParamNames) :
          frame' = Handler(PcParams(frame, o, order))
    /\ ProcUnchanged

ProcNext == ProcLoad \/ ProcResolve \/ ProcValidate \/ ProcParams

SpecProc == ProcInit /\ [][ProcNext]_vars

-----------------------------------------------------------------------------
(* list_files_recursively                                                  *)
(*                                                                         *)
(* A file is the sequence of its path components below the walked root.    *)
(* A pattern line is a str: the token "!" in front negates it, the rest    *)
(* is a glob.  PathSpec.from_lines("gitwildmatch", lines) keeps one        *)
(* pattern per line, in order, and PathSpec.match_file answers with the    *)
(* polarity of the LAST pattern whose glob matches the file (gitignore     *)
(* semantics); a PathSpec is falsy when it holds no pattern.  Blank and    *)
(* comment lines are not among the inputs modelled here.                   *)

Files ==
    {<<"config.yaml">>, <<"a.yaml">>, <<"notes.txt">>,
     <<"dev", "b.yml">>, <<"dev", "config.yaml">>}
Trees == {Files, {}} \cup {{f} : f \in Files}

Last(s) == s[Len(s)]
Ext(name) ==
    CASE name \in {"config.yaml", "a.yaml"} -> ".yaml"
      [] name \in {"b.yml"} -> ".yml"
      [] OTHER -> ".txt"

\* gitwildmatch on the globs of this model: a glob without "/" and a
\* glob that starts with "**/" match at any depth
GlobMatch(glob, file) ==
    CASE glob = <<"**/config.yaml">> -> Last(file) = "config.yaml"
      [] glob = <<"config.yaml">>    -> Last(file) = "config.yaml"
      [] glob = <<"**/*.yaml">>      -> Ext(Last(file)) = ".yaml"
      [] glob = <<"**/*.yml">>       -> Ext(Last(file)) = ".yml"
      [] glob = <<"a.yaml">>         -> Last(file) = "a.yaml"
      [] glob = <<"dev/*">>          -> Len(file) > 1 /\ file[1] = "dev"
      [] OTHER -> FALSE

Negated(line) == Len(line) > 0 /\ line[1] = "!"
GlobOf(line) == IF Negated(line) THEN Tail(line) ELSE line

RECURSIVE MatchFileFrom(_, _, _)
\* the loop of PathSpec.match_file: a later matching pattern overrides
MatchFileFrom(lines, file, matched) ==
    IF Len(lines) = 0 THEN matched
    ELSE MatchFileFrom(Tail(lines), file,
                       IF GlobMatch(GlobOf(lines[1]), file)
                          THEN ~Negated(lines[1]) ELSE matched)

\* faulty variant: any plain pattern that matches decides, negations are ignored
match_file_any(lines, file) ==
    \E i \in 1..Len(lines) : ~Negated(lines[i]) /\ GlobMatch(GlobOf(lines[i]), file)

match_file(lines, file) == MatchFileFrom(lines, file, FALSE)

\* os.walk is top-down: the files of the root come before those of its
\* sub-directories; the order inside a directory is the file system's
WalkOrders(t) ==
    {w \in [1..Cardinality(t) -> t] :
        /\ \A i, j \in 1..Cardinality(t) : w[i] = w[j] => i = j
        /\ \A i, j \in 1..Cardinality(t) : Len(w[i]) < Len(w[j]) => i < j}

\* lines 208-219
list_files_recursively(walk, include_filters, skip_filters) ==
    LET spec == include_filters
        skip_spec == skip_filters
        keep(file_path) ==
            LET matches_includes == Len(spec) = 0 \/ match_file(spec, file_path)
            IN  matches_includes
                /\ ~(Len(skip_spec) > 0 /\ match_file(skip_spec, file_path))
    IN  SelectSeq(walk, keep)

ListGlobs == {<<"**/config.yaml">>, <<"**/*.yaml">>}
PatternLines(globs) == globs \cup {<<"!">> \o g : g \in globs}
SeqsUpTo(S, n) == UNION {[1..k -> S] : k \in 0..n}

ListInit ==
    /\ pc = "list"
    /\ tree \in Trees
    /\ filters \in [include : SeqsUpTo(PatternLines(ListGlobs), MaxPatterns),
                    skip : SeqsUpTo(PatternLines(ListGlobs), MaxPatterns)]
    /\ configs = <<>>
    /\ config_params = <<>>
    /\ template_params = <<>>
    /\ mp_ret = <<0, None>>
    /\ frame = NoFrame
    /\ argv = NoArgv
    /\ idx = 0
    /\ comp_exit_code = 0
    /\ calls = <<>>
    /\ stdout = <<>>
    /\ exit_status = -1

ListFiles ==
    /\ pc = "list"
    /\ \E walk \in WalkOrders(tree) :
          configs' = list_files_recursively(walk, filters.include, filters.skip)
    /\ pc' = "listed"
    /\ UNCHANGED <<config_params, template_params, mp_ret, frame, argv, tree,
                   filters, idx, comp_exit_code, calls, stdout, exit_status>>

ListNext == ListFiles

SpecList == ListInit /\ [][ListNext]_vars

-----------------------------------------------------------------------------
(* __main__                                                                *)

RECURSIVE Split(_, _)
\* s.split(sep) for a non-empty str s
Split(s, sep) ==
    IF \A i \in 1..Len(s) : s[i] # sep THEN <<s>>
    ELSE LET k == CHOOSE i \in 1..Len(s) :
                     s[i] = sep /\ \A j \in 1..(i - 1) : s[j] # sep
         IN  <<SubSeq(s, 1, k - 1)>> \o Split(SubSeq(s, k + 1, Len(s)), sep)

\* the value argparse stores for an option given as the patterns `lines`
Arg(lines) == Str(Join(lines, ","))

SkipGlobs == {<<"**/config.yaml">>, <<"a.yaml">>}
SkipArgs ==
    {None} \cup {Arg(l) : l \in SeqsUpTo(PatternLines(SkipGlobs), MaxPatterns) \ {<<>>}}
ConfigArgs ==
    {None, Arg(<< <<"config.yaml">> >>), Arg(<< <<"a.yaml">>, <<"dev/*">> >>)}
MainTrees == {Files, {<<"config.yaml">>, <<"a.yaml">>}, {}}

\* the worlds a configuration file can be processed in: Scenario A (passes),
\* Scenario E (malformed YAML) and a template the linter rejects
MainOrder == CHOOSE o \in Perms(ProcParamNames) : TRUE
EnvPass ==
    [load |-> [exc |-> NoExc,
               config |-> [keys |-> {"template_path", "parameters"},
                           template_path |-> Str(<<"app.yaml">>),
                           parameters |-> ParamsMap([p \in {"Env"} |-> "v"])]],
     world |-> [orig |-> "file", alt |-> "none"],
     validate |-> [exc |-> NoExc, exit_code |-> 0, errors |-> <<>>],
     template |-> [exc |-> NoExc,
                   tparams |-> [p \in {"Env", "Size"} |->
                                   IF p = "Env" THEN {} ELSE {"Default"}]],
     order |-> MainOrder]
EnvMalformed ==
    [EnvPass EXCEPT !.load = [exc |-> Exc("YAMLError", "mapping values are not allowed here"),
                              config |-> NoConfig]]
EnvLintFail ==
    [EnvPass EXCEPT !.validate = [exc |-> NoExc, exit_code |-> 2,
                                  errors |-> <<"E3001 Invalid resource">>]]
MainEnvs == {EnvPass, EnvMalformed, EnvLintFail}

\* lines 223, 251 and 256
CONFIG_DIR == <<"config">>
MandatorySkip == << <<"**/config.yaml">> >>
DefaultIncludes == << <<"**/*.yaml">>, <<"**/*.yml">> >>

\* lines 251-253
SkipFiles(skip) ==
    MandatorySkip \o (IF Truthy(skip) THEN Split(skip.s, ",") ELSE <<>>)

\* line 256
IncludeFilters(config_filter) ==
    IF Truthy(config_filter) THEN Split(config_filter.s, ",") ELSE DefaultIncludes

\* faulty variant: the loop stops at the first failing file
LoopDoneAtFirstFailure(i, cfgs, code) == i = Len(cfgs) \/ code > 0

\* line 260: the for loop is over when configs is exhausted
LoopDone(i, cfgs, code) == i = Len(cfgs)

FailedHeader(config_path) ==
    <<"\n[!] Validation failed for [">> \o PathStr(config_path)
        \o <<"] with following errors:">>

MainInit ==
    /\ pc = "start"
    /\ argv \in [config : ConfigArgs, skip : SkipArgs, verbose : BOOLEAN,
                 has_config_dir : BOOLEAN]
    /\ tree \in MainTrees
    /\ ~argv.has_config_dir => tree = {} /\ ~argv.verbose
    /\ filters = NoFilters
    /\ configs = <<>>
    /\ config_params = <<>>
    /\ template_params = <<>>
    /\ mp_ret = <<0, None>>
    /\ frame = NoFrame
    /\ idx = 0
    /\ comp_exit_code = 0
    /\ calls = <<>>
    /\ stdout = <<>>
    /\ exit_status = -1

\* lines 248-250
MainNoConfigDir ==
    /\ pc = "start"
    /\ ~argv.has_config_dir
    /\ stdout' = Append(stdout, <<"no config folder to process">>)
    /\ exit_status' = 0
    /\ pc' = "exited"
    /\ UNCHANGED <<config_params, template_params, mp_ret, frame, argv, tree,
                   filters, configs, idx, comp_exit_code, calls>>

\* lines 251-258
MainList ==
    /\ pc = "start"
    /\ argv.has_config_dir
    /\ filters' = [include |-> IncludeFilters(argv.config), skip |-> SkipFiles(argv.skip)]
    /\ \E walk \in WalkOrders(tree) :
          configs' = list_files_recursively(walk, filters'.include, filters'.skip)
    /\ pc' = "loop"
    /\ UNCHANGED <<config_params, template_params, mp_ret, frame, argv, tree,
                   idx, comp_exit_code, calls, stdout, exit_status>>

\* lines 260-275: one iteration of the loop
MainIterate ==
    /\ pc = "loop"
    /\ ~LoopDone(idx, configs, comp_exit_code)
    /\ \E env \in MainEnvs :
          LET config_path == configs[idx + 1]
              f == process_config(PROJECT_HOME \o CONFIG_DIR \o config_path,
                                  PROJECT_HOME, argv.verbose, env)
              error_msg == f.ret[2]
          IN  IF f.pc = "escaped"
                 THEN \* an exception that leaves process_config ends the script
                      /\ pc' = "exited"
                      /\ exit_status' = 1
                      /\ stdout' = stdout \o f.printed
                      /\ UNCHANGED <<idx, comp_exit_code, calls, frame>>
                 ELSE /\ comp_exit_code' = f.ret[1]
                      /\ calls' = Append(calls, [path |-> config_path, ret |-> f.ret])
                      /\ stdout' =
                            stdout \o f.printed \o
                            (IF f.ret[1] > 0
                                THEN <<FailedHeader(config_path), error_msg>>
                                ELSE IF Len(error_msg) > 0 /\ argv.verbose
                                        THEN <<error_msg>> ELSE <<>>)
                      /\ idx' = idx + 1
                      /\ frame' = frame
                      /\ UNCHANGED <<pc, exit_status>>
    /\ UNCHANGED <<config_params, template_params, mp_ret, argv, tree, filters, configs>>

\* lines 277-278
MainExit ==
    /\ pc = "loop"
    /\ LoopDone(idx, configs, comp_exit_code)
    /\ stdout' = Append(stdout, <<"configs checked: ", "len(configs)">>)
    /\ exit_status' = comp_exit_code
    /\ pc' = "exited"
    /\ UNCHANGED <<config_params, template_params, mp_ret, frame, argv, tree,
                   filters, configs, idx, comp_exit_code, calls>>

MainNext == MainNoConfigDir \/ MainList \/ MainIterate \/ MainExit

Spec == MainInit /\ [][MainNext]_vars

-----------------------------------------------------------------------------
(* Properties of process_config (specification SpecProc).                  *)

Returned == pc = "proc" /\ frame.pc = "return"

\* C3: when process_config completes without an exception the exit code it
\* returns equals max(templateExitCode, paramsExitCode), for every (exit
\* code, text) pair of the validator and every result of match_params, and
\* the report is "OK" exactly when that exit code is 0.
C3_ExitCodeIsMax ==
    Returned /\ frame.exc = NoExc =>
        /\ frame.ret[1] = Max(frame.template_exit_code, frame.params_exit_code)
        /\ frame.ret[2] = OK <=>
              Max(frame.template_exit_code, frame.params_exit_code) = 0

\* C4: process_config never lets an exception escape: whatever step raised
\* (load, reading a key, resolving, validating, extracting Parameters,
\* matching) it returns (1, "Failed to process config file: <path>: <cause>").
C4_NoExceptionEscapes ==
    pc = "proc" =>
        /\ frame.pc \notin {"raised", "escaped"}
        /\ frame.exc # NoExc =>
              /\ frame.pc = "return"
              /\ frame.ret[1] = 1
              /\ frame.ret[2] = <<"Failed to process config file: ">>
                                  \o PathStr(frame.config_filename)
                                  \o <<": ">> \o <<frame.exc.msg>>

\* the template was validated and then the config turned out to have no
\* 'parameters' key: the failure of a late step came back as a pair
C4_Witness ==
    /\ Returned
    /\ frame.exc = Exc("KeyError", "'parameters'")
    /\ frame.validated_path # <<>>
    /\ frame.ret[1] = 1

\* the path the statement of C10 expects, from what the file system holds
ExpectedTemplatePath ==
    LET tp == frame.config.template_path.s
        original == frame.project_home \o tp
        fallback == frame.project_home \o <<"templates">> \o tp
    IN  IF frame.world.orig # "none" THEN original
        ELSE IF frame.world.alt = "file" THEN fallback
        ELSE original

\* C10: the path used for validation and for parameter extraction is
\* projectRoot/template_path when that exists; otherwise it is
\* projectRoot/templates/template_path iff that exists and is a regular
\* file, else the original path; the fallback is never used when the
\* original exists.
C10_TemplatePathResolution ==
    pc = "proc" =>
        /\ frame.validated_path # <<>> => frame.validated_path = ExpectedTemplatePath
        /\ frame.extracted_path # <<>> => frame.extracted_path = ExpectedTemplatePath

\* Scenario D: only templates/app.yaml exists, it is used and the call passes
C10_Witness ==
    /\ Returned
    /\ frame.world = [orig |-> "none", alt |-> "file"]
    /\ frame.validated_path = PROJECT_HOME \o <<"templates", "app.yaml">>
    /\ frame.extracted_path = frame.validated_path
    /\ frame.ret = <<0, OK>>

-----------------------------------------------------------------------------
(* Properties of list_files_recursively (specification SpecList).          *)

\* a path matches a pattern line when the line is a plain (not negated)
\* glob that matches it
MatchesSome(lines, file) ==
    \E i \in 1..Len(lines) : ~Negated(lines[i]) /\ GlobMatch(GlobOf(lines[i]), file)

\* the last line whose glob matches the path exists and is not negated
LastMatchIsPlain(lines, file) ==
    \E i \in 1..Len(lines) :
        /\ GlobMatch(GlobOf(lines[i]), file)
        /\ ~Negated(lines[i])
        /\ \A j \in (i + 1)..Len(lines) : ~GlobMatch(GlobOf(lines[j]), file)

ReturnedOnce == Len(configs) = Cardinality(Range(configs))

-----------------------------------------------------------------------------
(* Properties of the run (specification Spec).                             *)

RECURSIVE MaxExit(_)
\* the largest exit code among the calls, 0 for none
MaxExit(cs) ==
    IF Len(cs) = 0 THEN 0 ELSE Max(cs[1].ret[1], MaxExit(Tail(cs)))

\* C2: after the loop the process exit code is the maximum of the exit codes
\* process_config returned over all processed files (0 for none), whatever
\* the position of a failing file in the sequence.
C2_ExitCodeIsMaximum ==
    pc = "exited" => exit_status = MaxExit(calls)

\* C5: when the configuration directory exists every discovered file is
\* processed exactly once, in turn, before the process exits, whatever the
\* earlier outcomes, and every file whose process_config exit code is
\* greater than 0 gets its own labelled error block on standard output.
C5_EveryFileProcessed ==
    /\ Len(calls) = idx
    /\ \A i \in 1..Len(calls) : calls[i].path = configs[i]
    /\ pc = "exited" /\ argv.has_config_dir =>
          /\ Len(calls) = Len(configs)
          /\ \A f \in Range(configs) :
                Cardinality({i \in 1..Len(calls) : calls[i].path = f}) = 1
          /\ \A i \in 1..Len(calls) :
                calls[i].ret[1] > 0 =>
                   \E k \in 1..(Len(stdout) - 1) :
                      /\ stdout[k] = FailedHeader(calls[i].path)
                      /\ stdout[k + 1] = calls[i].ret[2]
          /\ Cardinality({k \in 1..Len(stdout) :
                            \E f \in Files : stdout[k] = FailedHeader(f)})
                = Cardinality({i \in 1..Len(calls) : calls[i].ret[1] > 0})

\* the first file failed, a later one passed and a still later one failed
C5_Witness ==
    /\ pc = "exited"
    /\ Len(calls) >= 3
    /\ calls[1].ret[1] > 0
    /\ calls[2].ret[1] = 0
    /\ calls[3].ret[1] > 0

\* C7: for every -c and -s value the reserved file config.yaml is never
\* handed to process_config; skip patterns can add exclusions but never
\* cancel the exclusion of config.yaml, even when it is explicitly included.
C7_ConfigYamlNeverProcessed ==
    /\ <<"config.yaml">> \notin Range(configs)
    /\ \A i \in 1..Len(calls) : calls[i].path # <<"config.yaml">>

====
